---------------------------- MODULE Spec2Model ----------------------------
(***************************************************************************)
(* Model of the speedy.js code generation core:                            *)
(*   - CodeGenerationDiagnostic (code-generation-diagnostic.ts): the       *)
(*     constructor, toDiagnostic, createException, the factory functions   *)
(*     and the diagnostics catalog;                                        *)
(*   - MathObjectReference (math-object-reference.ts, lines 1-128):        *)
(*     createFunctionFor, createPropertyReference, pow, createPowFunction, *)
(*     createSqrtFunction, acting on the functions of the llvm module;     *)
(*   - the type mapper (math-object-reference.ts, lines 130-233):          *)
(*     toLLVMType and isMaybeObjectType.                                   *)
(*                                                                         *)
(* Strings that are formatted are modelled as sequences of text pieces; a  *)
(* "%s" piece is a placeholder of util.format and the empty string is the  *)
(* empty sequence.  A call either returns a value or throws one; both are  *)
(* kept as an outcome record [status, value].                              *)
(***************************************************************************)
EXTENDS Integers, Sequences, FiniteSets

\* Record constructors in operators and actions list their fields in the
\* order TLC keeps them in (the order in which the names first appear in this
\* module), so a record is already in normal form when it is built and the
\* workers of a parallel run never reorder a record they share.
VARIABLES
    module,     \* context.module: the sequence of llvm functions declared so far
    op,         \* the last call made on the Math object reference
    result,     \* the outcome of that call
    type,       \* the ts.Type handed to toLLVMType
    mapped,     \* the outcome of toLLVMType(type, context)
    call,       \* the last constructor or factory call of CodeGenerationDiagnostic
    outcome,    \* the outcome of that call
    converted   \* the ts.Diagnostic returned by toDiagnostic() on the diagnostic held

vars == <<module, op, result, type, mapped, call, outcome, converted>>

-----------------------------------------------------------------------------
(* Bounds of the model *)

\* the longest list of signatures handed to createFunctionFor
MaxSignatures == 2
\* the largest number of member types of a union type
MaxUnion == 3
\* the largest number of flags set on one non-union type
MaxFlags == 2
\* the largest number of declarations of a type's symbol
MaxDeclarations == 2

-----------------------------------------------------------------------------
(* Outcomes of calls, and the values that are thrown *)

Return(v) == [status |-> "return", value |-> v]

Throw(v) == [status |-> "throw", value |-> v]

\* nothing has been called yet
Pending == [status |-> "pending"]

\* assert(value, message) of node's assert module, when value is falsy
AssertionError(text) == [kind |-> "AssertionError", message |-> <<text>>]

\* new Error(message)
Error(message) == [kind |-> "Error", message |-> message]

\* a property read on undefined
TypeError == [kind |-> "TypeError"]

-----------------------------------------------------------------------------
(* Syntax nodes *)

\* an argument that is undefined at run time
Undefined == [undefined |-> TRUE]

\* ts.Node: pos and end delimit the node including its leading trivia, text is
\* the text of its name (property.name.text, identifier.text), kind and
\* operator are the names ts.SyntaxKind[...] gives
Node(pos, end, file, text) ==
    [text |-> text, kind |-> "CallExpression", pos |-> pos, end |-> end,
     file |-> file, operator |-> "PlusToken"]

Nodes == { Node(0, 7, "a.ts", "random"), Node(4, 6, "b.ts", "PI") }

getFullStart(node) == node.pos

getFullWidth(node) == node.end - node.pos

getSourceFile(node) == node.file

-----------------------------------------------------------------------------
(* util.format, as createException uses it: format string and string arguments *)

\* the pieces of a string joined: empty pieces vanish
concat(pieces) == SelectSeq(pieces, LAMBDA p : p # "")

\* the number of %s placeholders of a format string
placeholders(f) == Cardinality({ i \in DOMAIN f : f[i] = "%s" })

\* each placeholder replaced by the next argument, while arguments are left
RECURSIVE substitute(_, _)
substitute(f, args) ==
    IF f = <<>> THEN <<>>
    ELSE IF Head(f) = "%s" /\ args # <<>>
         THEN <<Head(args)>> \o substitute(Tail(f), Tail(args))
         ELSE <<Head(f)>> \o substitute(Tail(f), args)

\* the arguments no placeholder took, each appended after a space
RECURSIVE appended(_)
appended(args) ==
    IF args = <<>> THEN <<>>
    ELSE <<" ", Head(args)>> \o appended(Tail(args))

format(f, args) ==
    LET used == IF placeholders(f) < Len(args) THEN placeholders(f) ELSE Len(args)
    IN  concat(substitute(f, args) \o appended(SubSeq(args, used + 1, Len(args))))

-----------------------------------------------------------------------------
(* The diagnostics catalog *)

diagnostics ==
    [
     BuiltInMethodNotSupported |->
        [code |-> 100000,
         message |->
           << "The method '",
              "%s",
              "' of the built in object '",
              "%s",
              "' is not supported." >>],
     BuiltInPropertyNotSupported |->
        [code |-> 100001,
         message |->
           << "The property '",
              "%s",
              "' of the built in object '",
              "%s",
              "' is not supported." >>],
     BuiltInObjectDoesNotSupportElementAccess |->
        [code |-> 100002,
         message |->
           << "The built in object '",
              "%s",
              "' does not support element access (",
              "%s",
              "[index] or $s[index]=value)." >>],
     UnsupportedBuiltInClass |->
        [code |-> 100003,
         message |->
           << "The class referenced by this identifier is not supported." >>],
     UnsupportedLiteralType |->
        [code |-> 100004,
         message |->
           << "The literal type '",
              "%s",
              "' is not supported." >>],
     UnsupportedType |->
        [code |-> 100005,
         message |->
           << "The type '",
              "%s",
              "' is not supported." >>],
     UnsupportedIdentifier |->
        [code |-> 100006,
         message |->
           << "Unsupported type or kind of identifier '",
              "%s",
              "'." >>],
     UnsupportedBinaryOperation |->
        [code |-> 100007,
         message |->
           << "The binary operator ",
              "%s",
              " is not supported for the left and right hand side types '",
              "%s",
              "' and '",
              "%s",
              "'." >>],
     UnsupportedUnaryOperation |->
        [code |-> 100008,
         message |->
           << "The unary operator ",
              "%s",
              " is not supported for the type '",
              "%s",
              "'." >>],
     AnonymousEntryFunctionsUnsupported |->
        [code |-> 100009,
         message |->
           << "SpeedyJS entry functions need to have a name." >>],
     ReferenceToNonEntrySpeedyJSFunctionFromJS |->
        [code |-> 100010,
         message |->
           << "SpeedyJS functions referenced from 'normal' JavaScript code needs to be async (the async modifier is missing on the declaration of '",
              "%s",
              "')." >>],
     OptionalParametersNotSupportedForEntryFunction |->
        [code |-> 100011,
         message |->
           << "Optional parameters or variadic parameters are not supported for SpeedyJS entry functions." >>],
     GenericEntryFunctionNotSuppoorted |->
        [code |-> 100012,
         message |->
           << "Generic SpeedyJS entry functions are not supported." >>],
     OverloadedEntryFunctionNotSupported |->
        [code |-> 100013,
         message |->
           << "SpeedyJS entry function cannot be overloaded." >>],
     UnsupportedSyntaxKind |->
        [code |-> 100014,
         message |->
           << "The syntax kind '",
              "%s",
              "' is not yet supported." >>],
     UnsupportedProperty |->
        [code |-> 1000015,
         message |->
           << "The kind of property is not yet supported, only object properties are supported." >>],
     UnsupportedIndexer |->
        [code |-> 1000016,
         message |->
           << "The kind of indexer is not yet supported" >>],
     UnsupportedCast |->
        [code |-> 1000017,
         message |->
           << "Casting from '",
              "%s",
              "' to '",
              "%s",
              "' is not yet supported" >>],
     UnsupportedImplicitArrayElementCast |->
        [code |-> 1000018,
         message |->
           << "The array element of type '",
              "%s",
              "' requires an implicit cast to the array element type '",
              "%s",
              "'. Implicit casts are not supported. An explicit cast of the element to the array element type is required." >>],
     UnsupportedImplicitCastOfBinaryExpressionOperands |->
        [code |-> 1000019,
         message |->
           << "No implicit cast for the binary expressions operands (left: ",
              "%s",
              ", right: ",
              "%s",
              ") exists. An explicit cast of either of the operands to the other's type is required." >>],
     UnsupportedImplicitCastOfArgument |->
        [code |-> 1000020,
         message |->
           << "Unsupported implicit cast of the argument with the type '",
              "%s",
              "' to the expected parameter type '",
              "%s",
              "'. An explicit cast of the argument to the type '",
              "%s",
              "' is required." >>],
     UnsupportedImplicitCastOfConditionalResult |->
        [code |-> 1000021,
         message |->
           << "Unsupported implicit cast of conditional case with type '",
              "%s",
              "' to the type '",
              "%s",
              "' of the whole conditional expression. An explicit cast of the conditional case to the type '",
              "%s",
              "' is required." >>],
     UnsupportedElementAccessExpression |->
        [code |-> 1000022,
         message |->
           << "Unsupported element access expression with indexer of type '",
              "%s",
              "'. Only element access expressions with an integer index are supported." >>],
     UnsupportedImplicitCastOfReturnValue |->
        [code |-> 1000023,
         message |->
           << "Unsupported implicit cast of return value with the type '",
              "%s",
              "' to function's return type '",
              "%s",
              "'. An explicit cast of the return value to the expected return type '",
              "%s",
              "' is required." >>],
     UnsupportedImplicitCast |->
        [code |-> 1000024,
         message |->
           << "Unsupported implicit cast of value with the type '",
              "%s",
              "' to the expected type '",
              "%s",
              "'. An explicit cast of the value to the type '",
              "%s",
              "' is required." >>],
     UnsupportedGenericFunction |->
        [code |-> 1000025,
         message |->
           << "Generic functions and methods are not yet supported." >>],
     UnsupportedStaticProperty |->
        [code |-> 1000026,
         message |->
           << "Static methods and properties are not yet supported." >>],
     UnsupportedNestedFunctionDeclaration |->
        [code |-> 1000027,
         message |->
           << "Functions nested inside of other functions that potentially make use of a closure are not yet supported" >>],
     UnsupportedFunctionDeclaration |->
        [code |-> 1000028,
         message |->
           << "Unsupported function declaration. Only function and method declarations are supported." >>],
     UnsupportedVarDeclaration |->
        [code |-> 1000029,
         message |->
           << "Unsupported 'var' declaration of variable. Only variables with block scope ('let' and 'const') are supported." >>],
     UnsupportedOverloadedFunctionDeclaration |->
        [code |-> 1000030,
         message |->
           << "Overloaded functions are not yet supported." >>],
     UnsupportedGenericClass |->
        [code |-> 1000031,
         message |->
           << "Generic classes are not yet supported." >>],
     UnsupportedClassInheritance |->
        [code |-> 1000032,
         message |->
           << "Class inheritance is not yet supported." >>]
    ]

-----------------------------------------------------------------------------
(* CodeGenerationDiagnostic *)

\* as the constructor, without the assertions on code and message
CodeGenerationDiagnosticUnchecked(node, code, message) ==
    IF node = Undefined THEN Throw(AssertionError("Node is not defined"))
    ELSE Return([kind |-> "CodeGenerationDiagnostic",
                 message |-> message, node |-> node, code |-> code])

\* constructor(node, code, message): the three assertions, in order
CodeGenerationDiagnostic(node, code, message) ==
    IF node = Undefined THEN Throw(AssertionError("Node is not defined"))
    ELSE IF code = 0 THEN Throw(AssertionError("code is not defined"))
    ELSE IF message = <<>> THEN Throw(AssertionError("message is not defined"))
    ELSE Return([kind |-> "CodeGenerationDiagnostic",
                 message |-> message, node |-> node, code |-> code])

\* as toDiagnostic, with the end of the node as the length
toDiagnosticEndAsLength(d) ==
    [file |-> getSourceFile(d.node),
     code |-> d.code,
     messageText |-> d.message,
     start |-> getFullStart(d.node),
     length |-> d.node.end,
     category |-> "Error"]

\* toDiagnostic(), this being the diagnostic d
toDiagnostic(d) ==
    [file |-> getSourceFile(d.node),
     code |-> d.code,
     messageText |-> d.message,
     start |-> getFullStart(d.node),
     length |-> getFullWidth(d.node),
     category |-> "Error"]

createException(node, diagnostic, args) ==
    CodeGenerationDiagnostic(node, diagnostic.code, format(diagnostic.message, args))

\* a factory that reads a property of its node throws a TypeError on undefined
reading(node, made) == IF node = Undefined THEN Throw(TypeError) ELSE made

\* as builtInMethodNotSupported, the two names handed over in the order received
builtInMethodNotSupportedSwapped(propertyAccessExpression, objectName, methodName) ==
    createException(propertyAccessExpression, diagnostics.BuiltInMethodNotSupported,
                    <<objectName, methodName>>)

builtInMethodNotSupported(propertyAccessExpression, objectName, methodName) ==
    createException(propertyAccessExpression, diagnostics.BuiltInMethodNotSupported,
                    <<methodName, objectName>>)

builtInPropertyNotSupported(property, objectName) ==
    reading(property,
        createException(property, diagnostics.BuiltInPropertyNotSupported,
                        <<property.text, objectName>>))

builtInDoesNotSupportElementAccess(element, objectName) ==
    createException(element, diagnostics.BuiltInObjectDoesNotSupportElementAccess,
                    <<objectName>>)

unsupportedLiteralType(node, typeName) ==
    createException(node, diagnostics.UnsupportedLiteralType, <<typeName>>)

\* as unsupportedType, made from the catalog entry of the literal types
unsupportedTypeOfLiteralEntry(node, typeName) ==
    createException(node, diagnostics.UnsupportedLiteralType, <<typeName>>)

unsupportedType(node, typeName) ==
    createException(node, diagnostics.UnsupportedType, <<typeName>>)

unsupportedIdentifier(identifier) ==
    reading(identifier,
        createException(identifier, diagnostics.UnsupportedIdentifier,
                        <<identifier.text>>))

unsupportedBinaryOperation(binaryExpression, leftType, rightType) ==
    reading(binaryExpression,
        createException(binaryExpression, diagnostics.UnsupportedBinaryOperation,
                        <<binaryExpression.operator, leftType, rightType>>))

unsupportedUnaryOperation(node, typeName) ==
    reading(node,
        createException(node, diagnostics.UnsupportedUnaryOperation,
                        <<node.operator, typeName>>))

anonymousEntryFunctionsNotSupported(fun) ==
    createException(fun, diagnostics.AnonymousEntryFunctionsUnsupported, <<>>)

optionalParametersInEntryFunctionNotSupported(optionalParameter) ==
    createException(optionalParameter,
                    diagnostics.OptionalParametersNotSupportedForEntryFunction, <<>>)

genericEntryFunctionNotSupported(fun) ==
    createException(fun, diagnostics.GenericEntryFunctionNotSuppoorted, <<>>)

unsupportedClassReferencedBy(identifier) ==
    createException(identifier, diagnostics.UnsupportedBuiltInClass, <<>>)

referenceToNonSpeedyJSEntryFunctionFromJS(identifier, speedyJSFunctionSymbolName) ==
    createException(identifier, diagnostics.ReferenceToNonEntrySpeedyJSFunctionFromJS,
                    <<speedyJSFunctionSymbolName>>)

overloadedEntryFunctionNotSupported(fun) ==
    createException(fun, diagnostics.OverloadedEntryFunctionNotSupported, <<>>)

unsupportedSyntaxKind(node) ==
    reading(node,
        createException(node, diagnostics.UnsupportedSyntaxKind, <<node.kind>>))

unsupportedProperty(propertyExpression) ==
    createException(propertyExpression, diagnostics.UnsupportedProperty, <<>>)

unsupportedIndexer(node) ==
    createException(node, diagnostics.UnsupportedIndexer, <<>>)

unsupportedCast(node, sourceType, targetType) ==
    createException(node, diagnostics.UnsupportedCast, <<sourceType, targetType>>)

implicitArrayElementCast(element, arrayElementType, typeOfElementRequiringImplicitCast) ==
    createException(element, diagnostics.UnsupportedImplicitArrayElementCast,
                    <<typeOfElementRequiringImplicitCast, arrayElementType>>)

unsupportedImplicitCastOfBinaryExpressionOperands(binaryExpression, leftOperandType, rightOperandType) ==
    createException(binaryExpression,
                    diagnostics.UnsupportedImplicitCastOfBinaryExpressionOperands,
                    <<leftOperandType, rightOperandType>>)

unsupportedImplicitCastOfArgument(elementNotMatchingArrayElementType, parameterType, argumentType) ==
    createException(elementNotMatchingArrayElementType,
                    diagnostics.UnsupportedImplicitCastOfArgument,
                    <<argumentType, parameterType, parameterType>>)

unsupportedImplicitCastOfConditionalResult(conditionalResult, typeOfConditional, typeOfConditionResult) ==
    createException(conditionalResult,
                    diagnostics.UnsupportedImplicitCastOfConditionalResult,
                    <<typeOfConditionResult, typeOfConditional, typeOfConditional>>)

\* argumentExpressionType is optional: undefined and "" both give "undefined"
unsupportedElementAccessExpression(elementAccessExpression, argumentExpressionType) ==
    createException(elementAccessExpression,
                    diagnostics.UnsupportedElementAccessExpression,
                    <<IF argumentExpressionType = "" THEN "undefined"
                      ELSE argumentExpressionType>>)

unsupportedImplicitCastOfReturnValue(returnStatement, declaredReturnType, returnStatementExpressionType) ==
    createException(returnStatement, diagnostics.UnsupportedImplicitCastOfReturnValue,
                    <<returnStatementExpressionType, declaredReturnType, declaredReturnType>>)

unsupportedImplicitCast(node, castTargetType, actualValueType) ==
    createException(node, diagnostics.UnsupportedImplicitCast,
                    <<actualValueType, castTargetType, castTargetType>>)

\* line 175 throws what createException returns
unsupportedFunctionDeclaration(declaration) ==
    LET made == createException(declaration, diagnostics.UnsupportedFunctionDeclaration, <<>>)
    IN  IF made.status = "return" THEN Throw(made.value) ELSE made

unsupportedGenericFunction(functionDeclaration) ==
    createException(functionDeclaration, diagnostics.UnsupportedGenericFunction, <<>>)

unsupportedStaticProperties(propertyExpression) ==
    createException(propertyExpression, diagnostics.UnsupportedStaticProperty, <<>>)

unsupportedNestedFunctionDeclaration(functionDeclaration) ==
    createException(functionDeclaration, diagnostics.UnsupportedNestedFunctionDeclaration, <<>>)

variableDeclarationList(declarationList) ==
    createException(declarationList, diagnostics.UnsupportedVarDeclaration, <<>>)

unsupportedOverloadedFunctionDeclaration(declaration) ==
    createException(declaration, diagnostics.UnsupportedOverloadedFunctionDeclaration, <<>>)

unsupportedGenericClass(classDeclaration) ==
    createException(classDeclaration, diagnostics.UnsupportedGenericClass, <<>>)

unsupportedClassInheritance(classDeclaration) ==
    createException(classDeclaration, diagnostics.UnsupportedClassInheritance, <<>>)

-----------------------------------------------------------------------------
(* The diagnostic subsystem as a state machine: one action per constructor *)
(* call, per factory function and for toDiagnostic                         *)

\* the strings handed to the factories as type names, object names, member names
Strings == { "", "Math", "random" }

\* the node argument of a call: a node, or undefined
NodeArguments == Nodes \cup { Undefined }

\* the codes and messages handed to the constructor directly
CodeArguments == { 0, 1, diagnostics.UnsupportedType.code }

MessageArguments == { <<>>, <<"message">> }

\* the names of the factory functions
Factories ==
    { "builtInMethodNotSupported",
      "builtInPropertyNotSupported",
      "builtInDoesNotSupportElementAccess",
      "unsupportedLiteralType",
      "unsupportedType",
      "unsupportedIdentifier",
      "unsupportedBinaryOperation",
      "unsupportedUnaryOperation",
      "anonymousEntryFunctionsNotSupported",
      "optionalParametersInEntryFunctionNotSupported",
      "genericEntryFunctionNotSupported",
      "unsupportedClassReferencedBy",
      "referenceToNonSpeedyJSEntryFunctionFromJS",
      "overloadedEntryFunctionNotSupported",
      "unsupportedSyntaxKind",
      "unsupportedProperty",
      "unsupportedIndexer",
      "unsupportedCast",
      "implicitArrayElementCast",
      "unsupportedImplicitCastOfBinaryExpressionOperands",
      "unsupportedImplicitCastOfArgument",
      "unsupportedImplicitCastOfConditionalResult",
      "unsupportedElementAccessExpression",
      "unsupportedImplicitCastOfReturnValue",
      "unsupportedImplicitCast",
      "unsupportedFunctionDeclaration",
      "unsupportedGenericFunction",
      "unsupportedStaticProperties",
      "unsupportedNestedFunctionDeclaration",
      "variableDeclarationList",
      "unsupportedOverloadedFunctionDeclaration",
      "unsupportedGenericClass",
      "unsupportedClassInheritance" }

\* no ts.Diagnostic has been made of the diagnostic held
NoRecord == [category |-> "none"]

\* what every constructor or factory call leaves alone
Made ==
    /\ converted' = NoRecord
    /\ UNCHANGED <<module, op, result, type, mapped>>

\* whether an outcome carries a CodeGenerationDiagnostic, returned or thrown
HoldsDiagnostic(o) ==
    /\ o.status \in { "return", "throw" }
    /\ o.value.kind = "CodeGenerationDiagnostic"

New ==
    \E node \in NodeArguments, code \in CodeArguments, message \in MessageArguments :
        /\ call' = [op |-> "new", message |-> message, node |-> node, code |-> code]
        /\ outcome' = CodeGenerationDiagnostic(node, code, message)
        /\ Made

ToDiagnostic ==
    /\ HoldsDiagnostic(outcome)
    /\ converted' = toDiagnostic(outcome.value)
    /\ UNCHANGED <<call, outcome, module, op, result, type, mapped>>

CallBuiltInMethodNotSupported ==
    \E node \in NodeArguments, a \in Strings, b \in Strings :
        /\ call' = [op |-> "builtInMethodNotSupported", node |-> node]
        /\ outcome' = builtInMethodNotSupported(node, a, b)
        /\ Made

CallBuiltInPropertyNotSupported ==
    \E node \in NodeArguments, a \in Strings :
        /\ call' = [op |-> "builtInPropertyNotSupported", node |-> node]
        /\ outcome' = builtInPropertyNotSupported(node, a)
        /\ Made

CallBuiltInDoesNotSupportElementAccess ==
    \E node \in NodeArguments, a \in Strings :
        /\ call' = [op |-> "builtInDoesNotSupportElementAccess", node |-> node]
        /\ outcome' = builtInDoesNotSupportElementAccess(node, a)
        /\ Made

CallUnsupportedLiteralType ==
    \E node \in NodeArguments, a \in Strings :
        /\ call' = [op |-> "unsupportedLiteralType", node |-> node]
        /\ outcome' = unsupportedLiteralType(node, a)
        /\ Made

CallUnsupportedType ==
    \E node \in NodeArguments, a \in Strings :
        /\ call' = [op |-> "unsupportedType", node |-> node]
        /\ outcome' = unsupportedType(node, a)
        /\ Made

CallUnsupportedIdentifier ==
    \E node \in NodeArguments :
        /\ call' = [op |-> "unsupportedIdentifier", node |-> node]
        /\ outcome' = unsupportedIdentifier(node)
        /\ Made

CallUnsupportedBinaryOperation ==
    \E node \in NodeArguments, a \in Strings, b \in Strings :
        /\ call' = [op |-> "unsupportedBinaryOperation", node |-> node]
        /\ outcome' = unsupportedBinaryOperation(node, a, b)
        /\ Made

CallUnsupportedUnaryOperation ==
    \E node \in NodeArguments, a \in Strings :
        /\ call' = [op |-> "unsupportedUnaryOperation", node |-> node]
        /\ outcome' = unsupportedUnaryOperation(node, a)
        /\ Made

CallAnonymousEntryFunctionsNotSupported ==
    \E node \in NodeArguments :
        /\ call' = [op |-> "anonymousEntryFunctionsNotSupported", node |-> node]
        /\ outcome' = anonymousEntryFunctionsNotSupported(node)
        /\ Made

CallOptionalParametersInEntryFunctionNotSupported ==
    \E node \in NodeArguments :
        /\ call' = [op |-> "optionalParametersInEntryFunctionNotSupported", node |-> node]
        /\ outcome' = optionalParametersInEntryFunctionNotSupported(node)
        /\ Made

CallGenericEntryFunctionNotSupported ==
    \E node \in NodeArguments :
        /\ call' = [op |-> "genericEntryFunctionNotSupported", node |-> node]
        /\ outcome' = genericEntryFunctionNotSupported(node)
        /\ Made

CallUnsupportedClassReferencedBy ==
    \E node \in NodeArguments :
        /\ call' = [op |-> "unsupportedClassReferencedBy", node |-> node]
        /\ outcome' = unsupportedClassReferencedBy(node)
        /\ Made

CallReferenceToNonSpeedyJSEntryFunctionFromJS ==
    \E node \in NodeArguments, a \in Strings :
        /\ call' = [op |-> "referenceToNonSpeedyJSEntryFunctionFromJS", node |-> node]
        /\ outcome' = referenceToNonSpeedyJSEntryFunctionFromJS(node, a)
        /\ Made

CallOverloadedEntryFunctionNotSupported ==
    \E node \in NodeArguments :
        /\ call' = [op |-> "overloadedEntryFunctionNotSupported", node |-> node]
        /\ outcome' = overloadedEntryFunctionNotSupported(node)
        /\ Made

CallUnsupportedSyntaxKind ==
    \E node \in NodeArguments :
        /\ call' = [op |-> "unsupportedSyntaxKind", node |-> node]
        /\ outcome' = unsupportedSyntaxKind(node)
        /\ Made

CallUnsupportedProperty ==
    \E node \in NodeArguments :
        /\ call' = [op |-> "unsupportedProperty", node |-> node]
        /\ outcome' = unsupportedProperty(node)
        /\ Made

CallUnsupportedIndexer ==
    \E node \in NodeArguments :
        /\ call' = [op |-> "unsupportedIndexer", node |-> node]
        /\ outcome' = unsupportedIndexer(node)
        /\ Made

CallUnsupportedCast ==
    \E node \in NodeArguments, a \in Strings, b \in Strings :
        /\ call' = [op |-> "unsupportedCast", node |-> node]
        /\ outcome' = unsupportedCast(node, a, b)
        /\ Made

CallImplicitArrayElementCast ==
    \E node \in NodeArguments, a \in Strings, b \in Strings :
        /\ call' = [op |-> "implicitArrayElementCast", node |-> node]
        /\ outcome' = implicitArrayElementCast(node, a, b)
        /\ Made

CallUnsupportedImplicitCastOfBinaryExpressionOperands ==
    \E node \in NodeArguments, a \in Strings, b \in Strings :
        /\ call' = [op |-> "unsupportedImplicitCastOfBinaryExpressionOperands", node |-> node]
        /\ outcome' = unsupportedImplicitCastOfBinaryExpressionOperands(node, a, b)
        /\ Made

CallUnsupportedImplicitCastOfArgument ==
    \E node \in NodeArguments, a \in Strings, b \in Strings :
        /\ call' = [op |-> "unsupportedImplicitCastOfArgument", node |-> node]
        /\ outcome' = unsupportedImplicitCastOfArgument(node, a, b)
        /\ Made

CallUnsupportedImplicitCastOfConditionalResult ==
    \E node \in NodeArguments, a \in Strings, b \in Strings :
        /\ call' = [op |-> "unsupportedImplicitCastOfConditionalResult", node |-> node]
        /\ outcome' = unsupportedImplicitCastOfConditionalResult(node, a, b)
        /\ Made

CallUnsupportedElementAccessExpression ==
    \E node \in NodeArguments, a \in Strings :
        /\ call' = [op |-> "unsupportedElementAccessExpression", node |-> node]
        /\ outcome' = unsupportedElementAccessExpression(node, a)
        /\ Made

CallUnsupportedImplicitCastOfReturnValue ==
    \E node \in NodeArguments, a \in Strings, b \in Strings :
        /\ call' = [op |-> "unsupportedImplicitCastOfReturnValue", node |-> node]
        /\ outcome' = unsupportedImplicitCastOfReturnValue(node, a, b)
        /\ Made

CallUnsupportedImplicitCast ==
    \E node \in NodeArguments, a \in Strings, b \in Strings :
        /\ call' = [op |-> "unsupportedImplicitCast", node |-> node]
        /\ outcome' = unsupportedImplicitCast(node, a, b)
        /\ Made

CallUnsupportedFunctionDeclaration ==
    \E node \in NodeArguments :
        /\ call' = [op |-> "unsupportedFunctionDeclaration", node |-> node]
        /\ outcome' = unsupportedFunctionDeclaration(node)
        /\ Made

CallUnsupportedGenericFunction ==
    \E node \in NodeArguments :
        /\ call' = [op |-> "unsupportedGenericFunction", node |-> node]
        /\ outcome' = unsupportedGenericFunction(node)
        /\ Made

CallUnsupportedStaticProperties ==
    \E node \in NodeArguments :
        /\ call' = [op |-> "unsupportedStaticProperties", node |-> node]
        /\ outcome' = unsupportedStaticProperties(node)
        /\ Made

CallUnsupportedNestedFunctionDeclaration ==
    \E node \in NodeArguments :
        /\ call' = [op |-> "unsupportedNestedFunctionDeclaration", node |-> node]
        /\ outcome' = unsupportedNestedFunctionDeclaration(node)
        /\ Made

CallVariableDeclarationList ==
    \E node \in NodeArguments :
        /\ call' = [op |-> "variableDeclarationList", node |-> node]
        /\ outcome' = variableDeclarationList(node)
        /\ Made

CallUnsupportedOverloadedFunctionDeclaration ==
    \E node \in NodeArguments :
        /\ call' = [op |-> "unsupportedOverloadedFunctionDeclaration", node |-> node]
        /\ outcome' = unsupportedOverloadedFunctionDeclaration(node)
        /\ Made

CallUnsupportedGenericClass ==
    \E node \in NodeArguments :
        /\ call' = [op |-> "unsupportedGenericClass", node |-> node]
        /\ outcome' = unsupportedGenericClass(node)
        /\ Made

CallUnsupportedClassInheritance ==
    \E node \in NodeArguments :
        /\ call' = [op |-> "unsupportedClassInheritance", node |-> node]
        /\ outcome' = unsupportedClassInheritance(node)
        /\ Made

-----------------------------------------------------------------------------
(* The type mapper *)

\* the ts.TypeFlags that toLLVMType tests on a type that is no union
PlainFlags == { "IntLike", "NumberLike", "BooleanLike", "Any", "Void", "Undefined", "Object" }

\* ts.Symbol of a type: getDeclarations() gives undefined when declared is FALSE
NoSymbol == [exists |-> FALSE]

Symbol(declarations) == [exists |-> TRUE, declarations |-> declarations, declared |-> TRUE]

SymbolWithoutDeclarations == [exists |-> TRUE, declared |-> FALSE]

\* the sequences over S of a length from lo to hi
SeqsOf(S, lo, hi) == UNION { [1..n -> S] : n \in lo..hi }

Symbols ==
    { NoSymbol, SymbolWithoutDeclarations }
        \cup { Symbol(d) : d \in SeqsOf(Nodes, 0, MaxDeclarations) }

\* ts.Type: flags, the member types of a union (types), the class that
\* context.resolveClass finds for it (classReference), its symbol and the name
\* that typeChecker.typeToString renders
Type(flags, types, classReference, symbol, name) ==
    [flags |-> flags, types |-> types, classReference |-> classReference,
     symbol |-> symbol, name |-> name]

ClassReferences == { Undefined, [name |-> "Foo"] }

PlainTypes ==
    { Type(flags, <<>>, c, s, "Foo") :
        flags \in { f \in SUBSET PlainFlags : Cardinality(f) <= MaxFlags },
        c \in ClassReferences, s \in Symbols }

\* the types a union is made of
MemberTypes ==
    { Type({"Undefined"}, <<>>, Undefined, NoSymbol, "undefined"),
      Type({"Null"}, <<>>, Undefined, NoSymbol, "null"),
      Type({"NumberLike"}, <<>>, Undefined, NoSymbol, "number"),
      Type({"Object"}, <<>>, [name |-> "Foo"], Symbol(<<Node(0, 7, "a.ts", "random")>>), "Foo"),
      Type({"Object"}, <<>>, Undefined, Symbol(<<Node(4, 6, "b.ts", "PI")>>), "Bar"),
      Type({"Object"}, <<>>, Undefined, NoSymbol, "{}") }

UnionTypes ==
    { Type({"Union"} \cup extra, types, Undefined, s, "Foo | undefined") :
        extra \in { {}, {"BooleanLike"} },
        types \in SeqsOf(MemberTypes, 2, MaxUnion),
        s \in Symbols }

Types == PlainTypes \cup UnionTypes

\* the llvm types
Int32Ty == [id |-> "i32"]

DoubleTy == [id |-> "double"]

Int1Ty == [id |-> "i1"]

VoidTy == [id |-> "void"]

getPointerTo(t) == [id |-> "pointer", pointee |-> t]

Int8PtrTy == getPointerTo([id |-> "i8"])

\* classReference.getLLVMType(type, context): the struct type of the class
getLLVMType(classReference) == [name |-> classReference.name, id |-> "struct"]

\* context.resolveClass(type)
resolveClass(t) == t.classReference

\* context.typeChecker.typeToString(type)
typeToString(t) == t.name

\* type.getNonNullableType(): the type without its undefined and null members
getNonNullableType(t) ==
    LET rest == SelectSeq(t.types,
                          LAMBDA m : "Undefined" \notin m.flags /\ "Null" \notin m.flags)
    IN  IF "Union" \notin t.flags THEN t
        ELSE IF Len(rest) = 1 THEN rest[1]
        ELSE IF rest = <<>> THEN Type({"Never"}, <<>>, Undefined, NoSymbol, "never")
        ELSE [t EXCEPT !.types = rest]

\* as isMaybeObjectType, for a union of any number of members
isMaybeObjectTypeOfAnySize(t) ==
    IF "Union" \in t.flags
    THEN /\ \E i \in DOMAIN t.types : "Undefined" \in t.types[i].flags
         /\ \E i \in DOMAIN t.types : "Object" \in t.types[i].flags
    ELSE FALSE

isMaybeObjectType(t) ==
    IF "Union" \in t.flags
    THEN /\ Len(t.types) = 2
         /\ \E i \in DOMAIN t.types : "Undefined" \in t.types[i].flags
         /\ \E i \in DOMAIN t.types : "Object" \in t.types[i].flags
    ELSE FALSE

\* as unsupported, anchored at the last declaration of the symbol
unsupportedAtLastDeclaration(t) ==
    IF ~t.symbol.exists THEN Throw(Error(<<"Unsupported type ", typeToString(t)>>))
    ELSE IF ~t.symbol.declared THEN Throw(TypeError)
    ELSE IF Len(t.symbol.declarations) > 0
         THEN LET made == unsupportedType(t.symbol.declarations[Len(t.symbol.declarations)],
                                          typeToString(t))
              IN  IF made.status = "return" THEN Throw(made.value) ELSE made
         ELSE Throw(Error(<<"Unsupported type ", typeToString(t)>>))

\* lines 178-182: the failure of a type no rule maps
unsupported(t) ==
    IF ~t.symbol.exists THEN Throw(Error(<<"Unsupported type ", typeToString(t)>>))
    ELSE IF ~t.symbol.declared THEN Throw(TypeError)
    ELSE IF Len(t.symbol.declarations) > 0
         THEN LET made == unsupportedType(t.symbol.declarations[1], typeToString(t))
              IN  IF made.status = "return" THEN Throw(made.value) ELSE made
         ELSE Throw(Error(<<"Unsupported type ", typeToString(t)>>))

RECURSIVE toLLVMType(_)
\* as toLLVMType, with the number-like test ahead of the int-like test
toLLVMTypeNumberFirst(t) ==
    IF "NumberLike" \in t.flags THEN Return(DoubleTy)
    ELSE IF "IntLike" \in t.flags THEN Return(Int32Ty)
    ELSE IF "BooleanLike" \in t.flags THEN Return(Int1Ty)
    ELSE IF "Any" \in t.flags
         THEN Throw(Error(<<"Any type not supported, annotate the type">>))
    ELSE IF "Void" \in t.flags THEN Return(VoidTy)
    ELSE IF "Undefined" \in t.flags THEN Return(Int8PtrTy)
    ELSE IF "Object" \in t.flags /\ resolveClass(t) # Undefined
         THEN Return(getPointerTo(getLLVMType(resolveClass(t))))
    ELSE IF isMaybeObjectType(t) THEN toLLVMType(getNonNullableType(t))
    ELSE unsupported(t)

toLLVMType(t) ==
    IF "IntLike" \in t.flags THEN Return(Int32Ty)
    ELSE IF "NumberLike" \in t.flags THEN Return(DoubleTy)
    ELSE IF "BooleanLike" \in t.flags THEN Return(Int1Ty)
    ELSE IF "Any" \in t.flags
         THEN Throw(Error(<<"Any type not supported, annotate the type">>))
    ELSE IF "Void" \in t.flags THEN Return(VoidTy)
    ELSE IF "Undefined" \in t.flags THEN Return(Int8PtrTy)
    ELSE IF "Object" \in t.flags /\ resolveClass(t) # Undefined
         THEN Return(getPointerTo(getLLVMType(resolveClass(t))))
    ELSE IF isMaybeObjectType(t) THEN toLLVMType(getNonNullableType(t))
    ELSE unsupported(t)

\* the type mapper is a pure function: a type is drawn, then mapped
NoType == Type({}, <<>>, Undefined, NoSymbol, "")

MapType ==
    /\ mapped = Pending
    /\ type \in Types
    /\ mapped' = toLLVMType(type)
    /\ UNCHANGED <<type, module, op, result, call, outcome, converted>>

-----------------------------------------------------------------------------
(* The llvm module and resolved functions *)

\* llvm.FunctionType.get(result, params, false)
FunctionType(returnType, parameterTypes) ==
    [returnType |-> returnType, parameterTypes |-> parameterTypes]

\* context.module.getFunction(name): the index of the function of that name
\* in the module, 0 when there is none
getFunction(m, name) ==
    IF \E i \in DOMAIN m : m[i].name = name
    THEN CHOOSE i \in DOMAIN m : m[i].name = name /\ \A j \in 1..(i - 1) : m[j].name # name
    ELSE 0

\* llvm.Function.create(type, linkage, name, module): the module with the new
\* function; llvm renames a function whose name is taken in the module
FunctionCreate(m, functionType, linkage, name) ==
    Append(m, [type |-> functionType,
               name |-> IF getFunction(m, name) = 0 THEN name ELSE name \o "." \o "1", linkage |-> linkage])

\* createResolvedParameter(name, type)
createResolvedParameter(name, parameterType) == [type |-> parameterType, name |-> name]

\* createResolvedFunction(name, typeParameters, parameters, returnType, declaration, classType)
createResolvedFunction(name, typeParameters, parameters, returnType, declaration, classType) ==
    [declaration |-> declaration, returnType |-> returnType, typeParameters |-> typeParameters,
     parameters |-> parameters, classType |-> classType, functionName |-> name,
     instanceMethod |-> classType # ""]

\* ts.Signature of a member of Math
Signature(name, numberType) ==
    [name |-> name,
     returnType |-> numberType,
     parameters |-> <<createResolvedParameter("value", numberType)>>]

\* createResolvedFunctionFromSignature(signature, compilationContext, classType)
createResolvedFunctionFromSignature(signature, classType) ==
    createResolvedFunction(signature.name, <<>>, signature.parameters,
                           signature.returnType, signature, classType)

\* ResolvedFunctionReference.create(fn, resolvedFunction); fn is the index of
\* the llvm function in the module
ResolvedFunctionReferenceCreate(fn, resolvedFunction) ==
    [kind |-> "ResolvedFunctionReference", fn |-> fn,
     resolvedFunction |-> resolvedFunction, attributes |-> {}]

\* ResolvedFunctionReference.createRuntimeFunction(resolvedFunction, context, attributes):
\* finds or declares the runtime's function and binds the reference to it
createRuntimeFunction(m, resolvedFunction, attributes) ==
    LET name == resolvedFunction.functionName
        found == getFunction(m, name)
        declared == IF found = 0
                    THEN FunctionCreate(m, FunctionType("double", <<"double">>),
                                        "ExternalLinkage", name)
                    ELSE m
    IN  [module |-> declared,
         outcome |-> Return([kind |-> "ResolvedFunctionReference",
                             fn |-> getFunction(declared, name),
                             resolvedFunction |-> resolvedFunction,
                             attributes |-> attributes])]

\* ResolvedFunctionReference.invokeWith(args, context): the value of the call
invokeWith(reference, args) ==
    [type |-> reference.resolvedFunction.returnType, kind |-> "Value", callee |-> reference.fn,
     arguments |-> args]

\* Primitive.toNumber(value, numberType, context).generateIR()
toNumber(value, numberType) == [type |-> numberType, value |-> value]

-----------------------------------------------------------------------------
(* MathObjectReference *)

\* typeName (line 26) and this.type, the object type of Math
typeName == "Math"

mathType == "Math"

\* as createPowFunction, declaring the intrinsic without looking it up
createPowFunctionAlways(m, numberType, classType) ==
    LET declared == FunctionCreate(m, FunctionType("double", <<"double", "double">>),
                                   "ExternalLinkage", "llvm.pow.f64")
        parameters == <<createResolvedParameter("value", numberType),
                        createResolvedParameter("exp", numberType)>>
        resolvedFunction ==
            [createResolvedFunction("pow", <<>>, parameters, numberType, Undefined, classType)
                EXCEPT !.instanceMethod = FALSE]
    IN  [module |-> declared,
         outcome |-> Return(ResolvedFunctionReferenceCreate(Len(declared), resolvedFunction))]

createPowFunction(m, numberType, classType) ==
    LET found == getFunction(m, "llvm.pow.f64")
        declared == IF found = 0
                    THEN FunctionCreate(m, FunctionType("double", <<"double", "double">>),
                                        "ExternalLinkage", "llvm.pow.f64")
                    ELSE m
        fn == IF found = 0 THEN Len(declared) ELSE found
        parameters == <<createResolvedParameter("value", numberType),
                        createResolvedParameter("exp", numberType)>>
        resolvedFunction ==
            [createResolvedFunction("pow", <<>>, parameters, numberType, Undefined, classType)
                EXCEPT !.instanceMethod = FALSE]
    IN  [module |-> declared,
         outcome |-> Return(ResolvedFunctionReferenceCreate(fn, resolvedFunction))]

\* as createSqrtFunction, leaving instanceMethod as the signature gives it
createSqrtFunctionAsInstanceMethod(m, signature) ==
    LET found == getFunction(m, "llvm.sqrt.f64")
        declared == IF found = 0
                    THEN FunctionCreate(m, FunctionType("double", <<"double">>),
                                        "ExternalLinkage", "llvm.sqrt.f64")
                    ELSE m
        fn == IF found = 0 THEN Len(declared) ELSE found
        resolvedFunction == createResolvedFunctionFromSignature(signature, mathType)
    IN  [module |-> declared,
         outcome |-> Return(ResolvedFunctionReferenceCreate(fn, resolvedFunction))]

createSqrtFunction(m, signature) ==
    LET found == getFunction(m, "llvm.sqrt.f64")
        declared == IF found = 0
                    THEN FunctionCreate(m, FunctionType("double", <<"double">>),
                                        "ExternalLinkage", "llvm.sqrt.f64")
                    ELSE m
        fn == IF found = 0 THEN Len(declared) ELSE found
        resolvedFunction ==
            [createResolvedFunctionFromSignature(signature, mathType)
                EXCEPT !.instanceMethod = FALSE]
    IN  [module |-> declared,
         outcome |-> Return(ResolvedFunctionReferenceCreate(fn, resolvedFunction))]

\* CodeGenerationError (line 4) is the diagnostic class of code-generation-diagnostic.ts
CodeGenerationError_builtInMethodNotSupported(propertyAccessExpression, objectName, methodName) ==
    builtInMethodNotSupported(propertyAccessExpression, objectName, methodName)

\* a value that a function returns is thrown by its caller
thrown(made) == IF made.status = "return" THEN Throw(made.value) ELSE made

\* as createFunctionFor, the names Math does not support rejected before the
\* signatures are counted
createFunctionForDispatchFirst(m, symbol, signatures, propertyAccessExpression) ==
    IF symbol.name \notin { "log", "sin", "cos", "pow", "sqrt" }
    THEN [module |-> m,
          outcome |-> thrown(CodeGenerationError_builtInMethodNotSupported(
                                 propertyAccessExpression, "Math", symbol.name))]
    ELSE IF Len(signatures) # 1
    THEN [module |-> m,
          outcome |-> Throw(AssertionError("Math functions have not to be overloaded"))]
    ELSE IF symbol.name \in { "log", "sin", "cos" }
    THEN LET resolvedFunction ==
                 [createResolvedFunctionFromSignature(signatures[1], mathType)
                     EXCEPT !.instanceMethod = FALSE]
         IN  createRuntimeFunction(m, resolvedFunction, { "readnone", "noUnwind" })
    ELSE IF symbol.name = "pow"
    THEN createPowFunction(m, signatures[1].returnType, mathType)
    ELSE createSqrtFunction(m, signatures[1])

createFunctionFor(m, symbol, signatures, propertyAccessExpression) ==
    IF Len(signatures) # 1
    THEN [module |-> m,
          outcome |-> Throw(AssertionError("Math functions have not to be overloaded"))]
    ELSE IF symbol.name \in { "log", "sin", "cos" }
    THEN LET resolvedFunction ==
                 [createResolvedFunctionFromSignature(signatures[1], mathType)
                     EXCEPT !.instanceMethod = FALSE]
         IN  createRuntimeFunction(m, resolvedFunction, { "readnone", "noUnwind" })
    ELSE IF symbol.name = "pow"
    THEN createPowFunction(m, signatures[1].returnType, mathType)
    ELSE IF symbol.name = "sqrt"
    THEN createSqrtFunction(m, signatures[1])
    ELSE [module |-> m,
          outcome |-> thrown(CodeGenerationError_builtInMethodNotSupported(
                                 propertyAccessExpression, "Math", symbol.name))]

\* ComputedObjectPropertyReferenceBuilder: forProperty, readonly, fromRuntime, build
forProperty(propertyAccess) ==
    [kind |-> "ObjectPropertyReference", property |-> propertyAccess,
     readonly |-> FALSE, fromRuntime |-> FALSE, object |-> ""]

readonly(builder) == [builder EXCEPT !.readonly = TRUE]

fromRuntime(builder) == [builder EXCEPT !.fromRuntime = TRUE]

build(builder, objectReference) == [builder EXCEPT !.object = objectReference]

\* BuiltInObjectReference.throwUnsupportedBuiltIn(property)
throwUnsupportedBuiltIn(propertyAccess) ==
    thrown(builtInPropertyNotSupported(propertyAccess, typeName))

\* as createPropertyReference, the property not marked read-only
createPropertyReferenceWritable(symbol, propertyAccess) ==
    IF symbol.name = "PI"
    THEN Return(build(fromRuntime(forProperty(propertyAccess)), typeName))
    ELSE throwUnsupportedBuiltIn(propertyAccess)

createPropertyReference(symbol, propertyAccess) ==
    IF symbol.name = "PI"
    THEN Return(build(fromRuntime(readonly(forProperty(propertyAccess))), typeName))
    ELSE throwUnsupportedBuiltIn(propertyAccess)

\* static pow(lhs, rhs, numberType, context)
pow(m, lhs, rhs, numberType) ==
    LET powFunction == createPowFunction(m, numberType, mathType)
        args == <<toNumber(lhs, numberType), toNumber(rhs, numberType)>>
    IN  [module |-> powFunction.module,
         outcome |-> Return(invokeWith(powFunction.outcome.value, args))]

-----------------------------------------------------------------------------
(* The Math object reference as a state machine over one llvm module *)

\* the member names looked up on Math
MemberNames == { "pow", "sqrt", "sin", "cos", "log", "random", "PI" }

\* the number types of the checker
NumberTypes == { "number", "int" }

\* the property access expression Math.<name>, and the symbol it resolves to
PropertyAccess(name) == Node(0, 7, "a.ts", name)

SymbolOf(propertyAccess) == [name |-> propertyAccess.text]

\* the signature lists the checker may hand over for a member
SignatureLists(name) ==
    SeqsOf({ Signature(name, t) : t \in NumberTypes }, 0, MaxSignatures)

NoCall == [op |-> "none"]

CreateFunctionFor ==
    \E name \in MemberNames :
        \E signatures \in SignatureLists(name) :
            LET node == PropertyAccess(name)
                done == createFunctionFor(module, SymbolOf(node), signatures, node)
            IN  /\ module' = done.module
                /\ result' = done.outcome
                /\ op' = [op |-> "createFunctionFor", node |-> node,
                          name |-> name, signatures |-> signatures]
                /\ UNCHANGED <<type, mapped, call, outcome, converted>>

CreatePropertyReference ==
    \E name \in MemberNames :
        LET node == PropertyAccess(name)
        IN  /\ result' = createPropertyReference(SymbolOf(node), node)
            /\ op' = [op |-> "createPropertyReference", node |-> node, name |-> name]
            /\ UNCHANGED <<module, type, mapped, call, outcome, converted>>

Pow ==
    \E numberType \in NumberTypes :
        LET done == pow(module, "lhs", "rhs", numberType)
        IN  /\ module' = done.module
            /\ result' = done.outcome
            /\ op' = [op |-> "pow", name |-> "pow"]
            /\ UNCHANGED <<type, mapped, call, outcome, converted>>

-----------------------------------------------------------------------------
(* Specifications *)

Idle ==
    /\ module = <<>>
    /\ op = NoCall
    /\ result = Pending
    /\ type = NoType
    /\ mapped = Pending
    /\ call = NoCall
    /\ outcome = Pending
    /\ converted = NoRecord

\* the Math object reference on one module
Init == Idle

Next ==
    \/ CreateFunctionFor
    \/ CreatePropertyReference
    \/ Pow

Spec == Init /\ [][Next]_vars

\* the type mapper
TypeInit ==
    /\ type \in Types
    /\ module = <<>>
    /\ op = NoCall
    /\ result = Pending
    /\ mapped = Pending
    /\ call = NoCall
    /\ outcome = Pending
    /\ converted = NoRecord

TypeNext == MapType

TypeSpec == TypeInit /\ [][TypeNext]_vars

\* the diagnostics
DiagnosticNext ==
    \/ New
    \/ ToDiagnostic
    \/ CallBuiltInMethodNotSupported
    \/ CallBuiltInPropertyNotSupported
    \/ CallBuiltInDoesNotSupportElementAccess
    \/ CallUnsupportedLiteralType
    \/ CallUnsupportedType
    \/ CallUnsupportedIdentifier
    \/ CallUnsupportedBinaryOperation
    \/ CallUnsupportedUnaryOperation
    \/ CallAnonymousEntryFunctionsNotSupported
    \/ CallOptionalParametersInEntryFunctionNotSupported
    \/ CallGenericEntryFunctionNotSupported
    \/ CallUnsupportedClassReferencedBy
    \/ CallReferenceToNonSpeedyJSEntryFunctionFromJS
    \/ CallOverloadedEntryFunctionNotSupported
    \/ CallUnsupportedSyntaxKind
    \/ CallUnsupportedProperty
    \/ CallUnsupportedIndexer
    \/ CallUnsupportedCast
    \/ CallImplicitArrayElementCast
    \/ CallUnsupportedImplicitCastOfBinaryExpressionOperands
    \/ CallUnsupportedImplicitCastOfArgument
    \/ CallUnsupportedImplicitCastOfConditionalResult
    \/ CallUnsupportedElementAccessExpression
    \/ CallUnsupportedImplicitCastOfReturnValue
    \/ CallUnsupportedImplicitCast
    \/ CallUnsupportedFunctionDeclaration
    \/ CallUnsupportedGenericFunction
    \/ CallUnsupportedStaticProperties
    \/ CallUnsupportedNestedFunctionDeclaration
    \/ CallVariableDeclarationList
    \/ CallUnsupportedOverloadedFunctionDeclaration
    \/ CallUnsupportedGenericClass
    \/ CallUnsupportedClassInheritance

DiagnosticSpec == Init /\ [][DiagnosticNext]_vars

-----------------------------------------------------------------------------
(* Claims about the type mapper, checked under TypeSpec *)

\* the flags of the three primitive rules
Primitive(t) == t.flags \cap { "IntLike", "NumberLike", "BooleanLike" } # {}

\* the type is an object type that no rule before the object rule maps
ObjectOnly(t) ==
    /\ "Object" \in t.flags
    /\ t.flags \cap { "IntLike", "NumberLike", "BooleanLike", "Any", "Void", "Undefined" } = {}

\* the member of a two-member union that is not undefined
ObjectMember(t) == t.types[CHOOSE i \in DOMAIN t.types : "Undefined" \notin t.types[i].flags]

\* C1: toLLVMType maps by the first rule that matches, in the order int-like
\* (i32), number-like (double), boolean-like (i1), void unless any (void),
\* undefined (i8*), object with a resolved class (pointer to its struct) and
\* nullable-object union (the mapping of its non-nullable member).
C1_FirstMatchingRule ==
    mapped # Pending =>
        LET f == type.flags
            early == Primitive(type) \/ "Any" \in f
            withClass == "Object" \in f /\ resolveClass(type) # Undefined
        IN  /\ "IntLike" \in f => mapped = Return([id |-> "i32"])
            /\ "IntLike" \notin f /\ "NumberLike" \in f => mapped = Return([id |-> "double"])
            /\ f \cap { "IntLike", "NumberLike" } = {} /\ "BooleanLike" \in f
                   => mapped = Return([id |-> "i1"])
            /\ ~early /\ "Void" \in f => mapped = Return([id |-> "void"])
            /\ ~early /\ "Void" \notin f /\ "Undefined" \in f
                   => mapped = Return([id |-> "pointer", pointee |-> [id |-> "i8"]])
            /\ ~early /\ f \cap { "Void", "Undefined" } = {} /\ withClass
                   => mapped = Return([id |-> "pointer",
                                       pointee |-> [name |-> type.classReference.name,
                                                    id |-> "struct"]])
            /\ ~early /\ f \cap { "Void", "Undefined" } = {} /\ ~withClass
                      /\ isMaybeObjectType(type)
                   => /\ mapped = toLLVMType(ObjectMember(type))
                      /\ ObjectMember(type).classReference # Undefined
                            => mapped = Return([id |-> "pointer",
                                                pointee |-> [name |-> ObjectMember(type).classReference.name,
                                                             id |-> "struct"]])

\* a nullable-object union, undefined first, has been mapped to the pointer of its class
C1_Witness ==
    /\ "Union" \in type.flags
    /\ Len(type.types) = 2
    /\ "Undefined" \in type.types[1].flags
    /\ mapped = Return([id |-> "pointer", pointee |-> [name |-> "Foo", id |-> "struct"]])

\* C2: toLLVMType of a type flagged any (and not int-like, number-like or
\* boolean-like) fails, and the failure is a coded CodeGenerationDiagnostic
\* with a source anchor.
C2_AnyFailsWithDiagnostic ==
    mapped # Pending /\ "Any" \in type.flags /\ ~Primitive(type) =>
        /\ mapped.status = "throw"
        /\ mapped.value.kind = "CodeGenerationDiagnostic"
        /\ mapped.value.code # 0
        /\ mapped.value.node # Undefined

\* the UnsupportedType diagnostic of type t, anchored at the first declaration
IsUnsupportedTypeDiagnostic(o, t) ==
    /\ o.status = "throw"
    /\ o.value.kind = "CodeGenerationDiagnostic"
    /\ o.value.code = 100005
    /\ t.symbol.exists /\ t.symbol.declared /\ t.symbol.declarations # <<>>
    /\ o.value.node = t.symbol.declarations[1]
    /\ \E i \in DOMAIN o.value.message : o.value.message[i] = t.name

NullableObjectUnion(t) ==
    /\ "Union" \in t.flags
    /\ Len(t.types) = 2
    /\ \E i \in DOMAIN t.types : "Undefined" \in t.types[i].flags
    /\ \E i \in DOMAIN t.types : "Object" \in t.types[i].flags

\* a rule of lines 143-172 maps or rejects the type before the nullable rule
MatchesEarlierRule(t) ==
    \/ t.flags \cap { "IntLike", "NumberLike", "BooleanLike", "Any", "Void", "Undefined" } # {}
    \/ "Object" \in t.flags /\ resolveClass(t) # Undefined

\* C12 as stated: isMaybeObjectType holds exactly for the unions of two
\* members with an undefined and an object member, and every other union is
\* rejected by toLLVMType.
C12_EveryOtherUnionRejected ==
    /\ isMaybeObjectType(type) <=> NullableObjectUnion(type)
    /\ mapped # Pending /\ "Union" \in type.flags /\ ~NullableObjectUnion(type)
          => mapped.status = "throw"

\* C12, amended: isMaybeObjectType holds exactly for the unions of two members
\* with an undefined and an object member; of the types that no earlier rule
\* matches, toLLVMType maps such a union as it maps its object member, and
\* rejects every other union in its last rule, with the UnsupportedType
\* diagnostic or an error.
C12_OtherUnmatchedUnionsRejected ==
    /\ isMaybeObjectType(type) <=> NullableObjectUnion(type)
    /\ mapped # Pending /\ "Union" \in type.flags /\ ~MatchesEarlierRule(type)
          => /\ NullableObjectUnion(type)
                   => /\ mapped = toLLVMType(ObjectMember(type))
                      /\ resolveClass(ObjectMember(type)) # Undefined
                            => mapped = Return(getPointerTo(
                                   getLLVMType(resolveClass(ObjectMember(type)))))
             /\ ~NullableObjectUnion(type)
                   => /\ mapped.status = "throw"
                      /\ mapped.value.kind \in { "CodeGenerationDiagnostic", "Error", "TypeError" }
                      /\ mapped.value.kind = "CodeGenerationDiagnostic"
                            => mapped.value.code = diagnostics.UnsupportedType.code

\* a union of three members, an undefined and a resolvable object among them,
\* has been rejected with the diagnostic
C12_Witness ==
    /\ mapped.status = "throw"
    /\ "Union" \in type.flags
    /\ ~MatchesEarlierRule(type)
    /\ Len(type.types) = 3
    /\ \E i \in DOMAIN type.types : "Undefined" \in type.types[i].flags
    /\ \E i \in DOMAIN type.types : resolveClass(type.types[i]) # Undefined
    /\ mapped.value.kind = "CodeGenerationDiagnostic"

-----------------------------------------------------------------------------
(* Claims about MathObjectReference, checked under Spec *)

SupportedMembers == { "pow", "sqrt", "sin", "cos", "log" }

Intrinsics == { "llvm.pow.f64", "llvm.sqrt.f64" }

\* the number of functions of a name in a module
Count(m, name) == Cardinality({ i \in DOMAIN m : m[i].name = name })

\* the outcome is a thrown diagnostic of the given code, anchored at node,
\* whose message names the member and then the built-in object
IsBuiltInDiagnostic(o, code, node, member, object) ==
    /\ o.status = "throw"
    /\ o.value.kind = "CodeGenerationDiagnostic"
    /\ o.value.code = code
    /\ o.value.node = node
    /\ Len(o.value.message) = 5
    /\ o.value.message[2] = member
    /\ o.value.message[4] = object

\* C4: createFunctionFor with exactly one signature returns a function
\* reference for pow, sqrt, sin, cos and log, and for every other name fails
\* with BuiltInMethodNotSupported (100000) anchored at the property access,
\* the message naming the member as the method and Math as the object.
C4_DispatchByName ==
    op.op = "createFunctionFor" /\ Len(op.signatures) = 1 =>
        /\ op.name \in SupportedMembers
              => /\ result.status = "return"
                 /\ result.value.kind = "ResolvedFunctionReference"
        /\ op.name \notin SupportedMembers
              => /\ IsBuiltInDiagnostic(result, 100000, op.node, op.name, "Math")
                 /\ result.value.message[1] = "The method '"

\* Math.random has been looked up with one signature and has failed
C4_Witness ==
    /\ op.op = "createFunctionFor"
    /\ op.name = "random"
    /\ Len(op.signatures) = 1
    /\ result.status = "throw"

\* the llvm function a pow or sqrt call of this step is bound to, 0 for any other call
BoundTo(o, r, name) ==
    IF r.status # "return" THEN 0
    ELSE IF name = "llvm.pow.f64" /\ o.op = "pow" THEN r.value.callee
    ELSE IF o.op = "createFunctionFor"
            /\ ((name = "llvm.pow.f64" /\ o.name = "pow")
                \/ (name = "llvm.sqrt.f64" /\ o.name = "sqrt"))
         THEN r.value.fn
    ELSE 0

AtMostOneOfEach == \A name \in Intrinsics : Count(module, name) <= 1

\* C5: the module never holds two functions named llvm.pow.f64 or two named
\* llvm.sqrt.f64; a function is declared only when the lookup by name finds
\* none; and every pow (sqrt) call returns a reference bound to the function
\* the first call declared.
C5_FindOrDeclare ==
    /\ AtMostOneOfEach
    /\ [][ /\ AtMostOneOfEach'
           /\ \A name \in Intrinsics :
                 /\ \A i \in DOMAIN module : module'[i] = module[i]
                 /\ \A i \in DOMAIN module' \ DOMAIN module :
                        module'[i].name = name => getFunction(module, name) = 0
                 /\ BoundTo(op', result', name) # 0
                       => /\ BoundTo(op', result', name) \in DOMAIN module'
                          /\ module'[BoundTo(op', result', name)].name = name
                          /\ getFunction(module, name) # 0
                                => BoundTo(op', result', name) = getFunction(module, name)
                          /\ getFunction(module, name) = 0
                                => /\ BoundTo(op', result', name) = Len(module) + 1
                                   /\ Len(module') = Len(module) + 1
         ]_vars

\* pow is called again after sqrt was declared, and is bound to the first function
C5_Witness ==
    /\ op.op = "pow"
    /\ Len(module) >= 2
    /\ module[1].name = "llvm.pow.f64"
    /\ module[2].name = "llvm.sqrt.f64"
    /\ result.value.callee = 1

\* C9: createPropertyReference resolves PI to a read-only property sourced
\* from the runtime, and fails for every other name with
\* BuiltInPropertyNotSupported naming the member and Math.
C9_PropertyByName ==
    op.op = "createPropertyReference" =>
        /\ op.name = "PI"
              => /\ result.status = "return"
                 /\ result.value.kind = "ObjectPropertyReference"
                 /\ result.value.property = op.node
                 /\ result.value.readonly
                 /\ result.value.fromRuntime
        /\ op.name # "PI"
              => /\ IsBuiltInDiagnostic(result, diagnostics.BuiltInPropertyNotSupported.code,
                                        op.node, op.name, "Math")
                 /\ result.value.message[1] = "The property '"

\* both cases of C9: a property other than PI has failed
C9_Witness ==
    /\ op.op = "createPropertyReference"
    /\ op.name = "sqrt"
    /\ result.status = "throw"
    /\ result.value.kind = "CodeGenerationDiagnostic"

\* C10: sin, cos and log resolve to a runtime function with the attributes
\* {readnone, noUnwind} and declare no intrinsic; pow resolves to llvm.pow.f64
\* of type (double, double) -> double, sqrt to llvm.sqrt.f64 of type
\* (double) -> double; for all five instanceMethod is false.
C10_LoweringStrategy ==
    [][ op'.op = "createFunctionFor" /\ result'.status = "return" =>
            LET ref == result'.value
                fn == module'[ref.fn]
            IN  /\ ref.resolvedFunction.instanceMethod = FALSE
                /\ op'.name \in { "sin", "cos", "log" }
                      => /\ ref.attributes = { "readnone", "noUnwind" }
                         /\ fn.name \notin Intrinsics
                         /\ \A name \in Intrinsics : Count(module', name) = Count(module, name)
                /\ op'.name = "pow"
                      => /\ fn.name = "llvm.pow.f64"
                         /\ fn.type = [returnType |-> "double",
                                       parameterTypes |-> <<"double", "double">>]
                /\ op'.name = "sqrt"
                      => /\ fn.name = "llvm.sqrt.f64"
                         /\ fn.type = [returnType |-> "double",
                                       parameterTypes |-> <<"double">>]
      ]_vars

\* sqrt, pow and sin have all been resolved, sqrt last
C10_Witness ==
    /\ op.op = "createFunctionFor"
    /\ op.name = "sqrt"
    /\ result.status = "return"
    /\ Count(module, "llvm.pow.f64") = 1
    /\ Count(module, "sin") = 1
    /\ module[result.value.fn].name = "llvm.sqrt.f64"

\* C11: createFunctionFor handed no signature, or more than one, fails with
\* the assertion error of the signature count for every member name,
\* supported or not: the outcome is no CodeGenerationDiagnostic and no function
\* reference, and the module is left as it was.
C11_SignatureCountFirst ==
    [][ op'.op = "createFunctionFor" /\ Len(op'.signatures) # 1 =>
            /\ result' = Throw(AssertionError("Math functions have not to be overloaded"))
            /\ result'.value.kind # "CodeGenerationDiagnostic"
            /\ module' = module
      ]_vars

\* an overloaded pow and a random without signature have failed on the count,
\* in a module that holds sqrt and no pow
C11_Witness ==
    /\ op.op = "createFunctionFor"
    /\ op.name \in { "pow", "random" }
    /\ Len(op.signatures) = IF op.name = "pow" THEN 2 ELSE 0
    /\ result.status = "throw"
    /\ result.value.kind = "AssertionError"
    /\ Count(module, "llvm.sqrt.f64") = 1
    /\ Count(module, "llvm.pow.f64") = 0

-----------------------------------------------------------------------------
(* Claims about CodeGenerationDiagnostic, checked under DiagnosticSpec *)

\* C6: the constructor fails when the node is missing, the code is zero or
\* the message is empty, so every diagnostic, from the constructor or from a
\* factory function, has a node, a non-zero code and a non-empty message.
C6_ConstructorPrecondition ==
    /\ call.op = "new" /\ (call.node = Undefined \/ call.code = 0 \/ call.message = <<>>)
          => /\ outcome.status = "throw"
             /\ outcome.value.kind = "AssertionError"
    /\ HoldsDiagnostic(outcome)
          => /\ outcome.value.node # Undefined
             /\ outcome.value.code # 0
             /\ outcome.value.message # <<>>

\* the constructor has refused a zero code given with a node and a message
C6_Witness ==
    /\ call.op = "new"
    /\ call.node # Undefined
    /\ call.code = 0
    /\ call.message # <<>>
    /\ outcome.status = "throw"

\* C7: every factory function returns the diagnostic of the node it was
\* given to its caller; none raises it.
C7_FactoriesReturn ==
    call.op \in Factories /\ HoldsDiagnostic(outcome) =>
        /\ outcome.status = "return"
        /\ outcome.value.node = call.node

\* C8: toDiagnostic gives the record of the diagnostic's code and message,
\* the full start and full width of its node, the node's source file and the
\* category Error, and leaves the diagnostic as it is.
C8_ToDiagnosticRecord ==
    [][ converted' # NoRecord =>
            /\ outcome' = outcome
            /\ HoldsDiagnostic(outcome)
            /\ converted'.code = outcome.value.code
            /\ converted'.messageText = outcome.value.message
            /\ converted'.start = outcome.value.node.pos
            /\ converted'.length = outcome.value.node.end - outcome.value.node.pos
            /\ converted'.file = outcome.value.node.file
            /\ converted'.category = "Error"
      ]_vars

\* a diagnostic of the node at 4..6 of b.ts has been converted
C8_Witness ==
    /\ converted.category = "Error"
    /\ converted.start = 4
    /\ converted.length = 2
    /\ converted.file = "b.ts"
    /\ HoldsDiagnostic(outcome)

\* the entries of the catalog that carry a code
EntriesOf(code) == { k \in DOMAIN diagnostics : diagnostics[k].code = code }

\* C13: every entry of the catalog has a non-zero code and no two entries
\* share one; so no factory fails on the constructor's assertion of the code,
\* the code of a diagnostic made by a factory is the code of exactly one
\* entry, and two different factories never make diagnostics of the same code.
C13_CodesIdentifyEntries ==
    /\ \A k \in DOMAIN diagnostics : diagnostics[k].code # 0
    /\ \A k1, k2 \in DOMAIN diagnostics :
           k1 # k2 => diagnostics[k1].code # diagnostics[k2].code
    /\ call.op \in Factories /\ outcome.status = "throw"
          /\ outcome.value.kind = "AssertionError"
          => outcome.value.message # <<"code is not defined">>
    /\ call.op \in Factories /\ HoldsDiagnostic(outcome)
          => Cardinality(EntriesOf(outcome.value.code)) = 1
    /\ [][ /\ call.op \in Factories /\ HoldsDiagnostic(outcome)
           /\ call'.op \in Factories /\ HoldsDiagnostic(outcome')
           /\ call'.op # call.op
           => outcome'.value.code # outcome.value.code
         ]_vars

\* the last factory of the class has made the diagnostic of the last entry
C13_Witness ==
    /\ call.op = "unsupportedClassInheritance"
    /\ HoldsDiagnostic(outcome)
    /\ outcome.value.code = diagnostics.UnsupportedClassInheritance.code
    /\ EntriesOf(outcome.value.code) = { "UnsupportedClassInheritance" }

\* C14: every factory hands the formatter as many arguments as the message
\* of its catalog entry has %s placeholders, so the message of a diagnostic
\* made by a factory holds no placeholder left unfilled and no argument
\* appended after the text.
C14_ArgumentsFillPlaceholders ==
    call.op \in Factories /\ HoldsDiagnostic(outcome) =>
        \A i \in DOMAIN outcome.value.message :
            /\ outcome.value.message[i] # "%s"
            /\ outcome.value.message[i] # " "

=============================================================================
